---- MODULE Spec2Model ----
(***************************************************************************)
(* Model of lib/SIL/Passes/DataflowDiagnostics.cpp: the SIL pass that      *)
(* reports missing returns, non-exhaustive switches and returns from       *)
(* no-return functions.                                                    *)
(*                                                                         *)
(* A SILModule is a sequence of SILFunctions, a SILFunction a header       *)
(* (its SILLocation, and the result type and no-return flag of its         *)
(* declaration) and a sequence of basic blocks, a basic block a sequence   *)
(* of instructions.  An instruction is its kind and its SILLocation.  A    *)
(* SILLocation is null or refers to a node of the syntax tree.             *)
(***************************************************************************)
EXTENDS Integers, Sequences, FiniteSets

\* The largest number of instructions of a module.
MaxInsts == 2

VARIABLES M, Context, pc, visited, emitted, mark

vars == <<M, Context, pc, visited, emitted, mark>>

----------------------------------------------------------------------------
\* The syntax tree and SILLocation.

ASTNodes == {"FuncExpr", "ClosureExpr", "SwitchStmt"}

Null == "Null"

Locs == ASTNodes \cup {Null}

\* SILLocation::isNull, and the SILLocation's conversion to bool.
isNull(L) == L = Null

\* SILLocation::is<T>: the location refers to a node of class T.
is(L, T) == L = T

\* SILLocation::getAs<T>: the node when it is of class T, else null.
getAs(L, T) == IF L = T THEN L ELSE Null

\* A slip: the start of the node's source range instead of its end.
StartSourceLoc(L) ==
    CASE L = "FuncExpr" -> 10
      [] L = "ClosureExpr" -> 30
      [] L = "SwitchStmt" -> 50
      [] OTHER -> 0

\* SILLocation::getEndSourceLoc: where the node's source range ends (0: invalid).
getEndSourceLoc(L) ==
    CASE L = "FuncExpr" -> 20
      [] L = "ClosureExpr" -> 40
      [] L = "SwitchStmt" -> 60
      [] OTHER -> 0

----------------------------------------------------------------------------
\* Types.

NoType == "NoType"

Types == {"Void", "Int"}

isVoid(T) == T = "Void"

----------------------------------------------------------------------------
\* The module.

Kinds == {"Unreachable", "Return", "Other"}

Insts == [kind : Kinds, loc : Locs]

\* What a function's declaration says: the function's SILLocation, its result
\* type and whether its type is no-return.
Headers == [loc : {"FuncExpr", "ClosureExpr", Null}, resTy : Types, noReturn : BOOLEAN]

SILFunction(hdr, blocks) ==
    [loc |-> hdr.loc, resTy |-> hdr.resTy, noReturn |-> hdr.noReturn, blocks |-> blocks]

\* The number of functions that end at one of the first i instructions.
RECURSIVE CountEnds(_, _)
CountEnds(fEnd, i) ==
    IF i = 0 THEN 0 ELSE CountEnds(fEnd, i - 1) + (IF fEnd[i] THEN 1 ELSE 0)

\* The module of the instructions insts, where bEnd[i] says that instruction i
\* is the last of its basic block, fEnd[i] that it is the last of its
\* function, and hdrs are the functions' headers: blk is the block being
\* filled, blks the blocks of the function being filled, mod the functions
\* before it.
RECURSIVE Lower(_, _, _, _, _, _, _, _)
Lower(insts, bEnd, fEnd, hdrs, i, blk, blks, mod) ==
    IF i > Len(insts) THEN mod
    ELSE IF fEnd[i]
         THEN Lower(insts, bEnd, fEnd, hdrs, i + 1, <<>>, <<>>,
                    Append(mod, SILFunction(hdrs[Len(mod) + 1],
                                            Append(blks, Append(blk, insts[i])))))
         ELSE IF bEnd[i]
              THEN Lower(insts, bEnd, fEnd, hdrs, i + 1, <<>>,
                         Append(blks, Append(blk, insts[i])), mod)
              ELSE Lower(insts, bEnd, fEnd, hdrs, i + 1, Append(blk, insts[i]), blks, mod)

\* A function has a basic block, a basic block an instruction, and the
\* terminators (Unreachable, Return) stand only at the end of a block.
WellFormed(insts, bEnd, fEnd) ==
    /\ Len(insts) > 0 => fEnd[Len(insts)]
    /\ \A i \in DOMAIN insts :
          /\ fEnd[i] => bEnd[i]
          /\ ~bEnd[i] => insts[i].kind = "Other"

\* The instructions of a module, <<function, block, instruction>>.
Positions(Mod) ==
    UNION {UNION {{<<f, b, i>> : i \in DOMAIN Mod[f].blocks[b]} :
                    b \in DOMAIN Mod[f].blocks} : f \in DOMAIN Mod}

\* The order of the pass's three nested loops.
Before(p, q) ==
    \/ p[1] < q[1]
    \/ p[1] = q[1] /\ p[2] < q[2]
    \/ p[1] = q[1] /\ p[2] = q[2] /\ p[3] < q[3]

\* The first instruction of a set in the order of the loops.
First(S) == CHOOSE p \in S : \A q \in S \ {p} : Before(p, q)

InstAt(Mod, p) == Mod[p[1]].blocks[p[2]][p[3]]

\* SILInstruction::getParent()->getParent(): the function of an instruction.
FunctionOf(Mod, p) == Mod[p[1]]

----------------------------------------------------------------------------
\* The pass.  Context is the ASTContext: the diagnostics its engine was
\* handed, in order, and whether an assertion of the pass has failed.

Diagnostic(loc, kind, arg) == [kind |-> kind, loc |-> loc, arg |-> arg]

\* A slip: a diagnostic the engine was already handed is dropped.
diagnoseIfNew(Ctx, loc, kind, arg) ==
    IF \E i \in DOMAIN Ctx.Diags : Ctx.Diags[i] = Diagnostic(loc, kind, arg)
    THEN Ctx
    ELSE [Ctx EXCEPT !.Diags = Append(@, Diagnostic(loc, kind, arg))]

\* A slip: once a diagnostic is forwarded, those of another kind are dropped.
diagnoseOneKind(Ctx, loc, kind, arg) ==
    IF Ctx.Diags # <<>> /\ Ctx.Diags[Len(Ctx.Diags)].kind # kind
    THEN Ctx
    ELSE [Ctx EXCEPT !.Diags = Append(@, Diagnostic(loc, kind, arg))]

\* Context.Diags.diagnose: the engine is handed one more diagnostic.
diagnose(Ctx, loc, kind, arg) ==
    [Ctx EXCEPT !.Diags = Append(@, Diagnostic(loc, kind, arg))]

assertion(Ctx, cond) == [Ctx EXCEPT !.failed = @ \/ ~cond]

\* A slip: the no-return test is left out.
diagnoseMissingReturnNoReturnUntested(Ctx, UI, F) ==
    LET FExpr == getAs(F.loc, "FuncExpr")
        ResTy == IF FExpr # Null THEN F.resTy ELSE NoType
        L == UI.loc
    IN  IF FExpr # Null
        THEN IF isVoid(ResTy) THEN Ctx
             ELSE diagnose(assertion(Ctx, ~isNull(L) /\ ResTy # NoType),
                           getEndSourceLoc(L), "missing_return", ResTy)
        ELSE Ctx

\* A slip: a function whose location is no FuncExpr falls through to the
\* diagnostic.
diagnoseMissingReturnFallsThrough(Ctx, UI, F) ==
    LET FExpr == getAs(F.loc, "FuncExpr")
        ResTy == IF FExpr # Null THEN F.resTy ELSE NoType
        L == UI.loc
    IN  IF FExpr # Null /\ (isVoid(ResTy) \/ F.noReturn) THEN Ctx
        ELSE diagnose(assertion(Ctx, ~isNull(L) /\ ResTy # NoType),
                      getEndSourceLoc(L), "missing_return", ResTy)

diagnoseMissingReturn(Ctx, UI, F) ==
    LET FLoc == F.loc
        FExpr == getAs(FLoc, "FuncExpr")
        ResTy == IF FExpr # Null THEN F.resTy ELSE NoType
        L == UI.loc
    IN  IF FExpr # Null
        THEN IF isVoid(ResTy) THEN Ctx
             ELSE IF F.noReturn THEN Ctx
             ELSE diagnose(assertion(Ctx, ~isNull(L) /\ ResTy # NoType),
                           getEndSourceLoc(L), "missing_return", ResTy)
        ELSE Ctx

diagnoseNonExhaustiveSwitch(Ctx, UI) ==
    LET L == UI.loc
    IN  diagnose(assertion(Ctx, ~isNull(L)),
                 getEndSourceLoc(L), "non_exhaustive_switch", NoType)

\* A slip: the test for a SwitchStmt is left out.
diagnoseUnreachableSwitchUntested(Ctx, I, F) ==
    IF I.kind = "Unreachable"
    THEN LET L == I.loc
         IN  IF isNull(L) THEN Ctx
             ELSE IF is(L, "FuncExpr") THEN diagnoseMissingReturn(Ctx, I, F)
             ELSE diagnoseNonExhaustiveSwitch(Ctx, I)
    ELSE Ctx

\* A slip: a SwitchStmt is taken for a missing return as well.
diagnoseUnreachableSwitchAsBody(Ctx, I, F) ==
    IF I.kind = "Unreachable"
    THEN LET L == I.loc
         IN  IF isNull(L) THEN Ctx
             ELSE IF is(L, "FuncExpr") THEN diagnoseMissingReturn(Ctx, I, F)
             ELSE IF is(L, "SwitchStmt")
                  THEN diagnoseMissingReturn(diagnoseNonExhaustiveSwitch(Ctx, I), I, F)
             ELSE Ctx
    ELSE Ctx

diagnoseUnreachable(Ctx, I, F) ==
    IF I.kind = "Unreachable"
    THEN LET L == I.loc
         IN  IF isNull(L) THEN Ctx
             ELSE IF is(L, "FuncExpr") THEN diagnoseMissingReturn(Ctx, I, F)
             ELSE IF is(L, "SwitchStmt") THEN diagnoseNonExhaustiveSwitch(Ctx, I)
             ELSE Ctx
    ELSE Ctx

\* A slip: the diagnostic is anchored at the function's location.
diagnoseReturnAtFunction(Ctx, I, F) ==
    IF I.kind # "Return" THEN Ctx
    ELSE IF getAs(F.loc, "FuncExpr") # Null /\ F.noReturn /\ ~isNull(I.loc)
         THEN diagnose(Ctx, getEndSourceLoc(F.loc), "return_from_noreturn", NoType)
         ELSE Ctx

\* A slip: the no-return flag is not read.
diagnoseReturnFlagUnread(Ctx, I, F) ==
    IF I.kind # "Return" THEN Ctx
    ELSE IF getAs(F.loc, "FuncExpr") # Null /\ ~isNull(I.loc)
         THEN diagnose(Ctx, getEndSourceLoc(I.loc), "return_from_noreturn", NoType)
         ELSE Ctx

\* A slip: the return's location is not tested.
diagnoseReturnLocUntested(Ctx, I, F) ==
    IF I.kind # "Return" THEN Ctx
    ELSE IF getAs(F.loc, "FuncExpr") # Null /\ F.noReturn
         THEN diagnose(Ctx, getEndSourceLoc(I.loc), "return_from_noreturn", NoType)
         ELSE Ctx

diagnoseReturn(Ctx, I, F) ==
    IF I.kind # "Return" THEN Ctx
    ELSE LET FLoc == F.loc
             FExpr == getAs(FLoc, "FuncExpr")
         IN  IF FExpr # Null
             THEN IF F.noReturn
                  THEN LET L == I.loc
                       IN  IF ~isNull(L)
                           THEN diagnose(Ctx, getEndSourceLoc(L),
                                         "return_from_noreturn", NoType)
                           ELSE Ctx
                  ELSE Ctx
             ELSE Ctx

\* The body of the innermost loop: one instruction.
VisitInst(Ctx, Mod, p) ==
    diagnoseReturn(diagnoseUnreachable(Ctx, InstAt(Mod, p), FunctionOf(Mod, p)),
                   InstAt(Mod, p), FunctionOf(Mod, p))

\* The pass over the instructions S of a module, in the order of its loops.
RECURSIVE VisitAll(_, _, _)
VisitAll(Ctx, Mod, S) ==
    IF S = {} THEN Ctx
    ELSE VisitAll(VisitInst(Ctx, Mod, First(S)), Mod, S \ {First(S)})

emitSILDataflowDiagnostics(Ctx, Mod) == VisitAll(Ctx, Mod, Positions(Mod))

\* What a step appended to the diagnostics.
Suffix(new, old) == SubSeq(new, Len(old) + 1, Len(new))

----------------------------------------------------------------------------
\* The pass run twice over a module, an instruction a step.

Init ==
    /\ \E n \in 0..MaxInsts :
         \E insts \in [1..n -> Insts], bEnd \in [1..n -> BOOLEAN], fEnd \in [1..n -> BOOLEAN] :
            /\ WellFormed(insts, bEnd, fEnd)
            /\ \E hdrs \in [1..CountEnds(fEnd, n) -> Headers] :
                  M = Lower(insts, bEnd, fEnd, hdrs, 1, <<>>, <<>>, <<>>)
    /\ Context = [Diags |-> <<>>, failed |-> FALSE]
    /\ pc = "run1"
    /\ visited = {}
    /\ emitted = <<>>
    /\ mark = 0

Visit ==
    /\ pc \in {"run1", "run2"}
    /\ Positions(M) \ visited # {}
    /\ LET p == First(Positions(M) \ visited)
           C == VisitInst(Context, M, p)
       IN  /\ Context' = C
           /\ visited' = visited \cup {p}
           /\ emitted' = [q \in visited \cup {p} |->
                            IF q = p THEN Suffix(C.Diags, Context.Diags) ELSE emitted[q]]
    /\ UNCHANGED <<M, pc, mark>>

\* The first run returns and the pass is run again.
Rerun ==
    /\ pc = "run1"
    /\ Positions(M) \ visited = {}
    /\ pc' = "run2"
    /\ visited' = {}
    /\ emitted' = <<>>
    /\ mark' = Len(Context.Diags)
    /\ UNCHANGED <<M, Context>>

Return ==
    /\ pc = "run2"
    /\ Positions(M) \ visited = {}
    /\ pc' = "done"
    /\ UNCHANGED <<M, Context, visited, emitted, mark>>

Next == Visit \/ Rerun \/ Return

Spec == Init /\ [][Next]_vars

----------------------------------------------------------------------------
\* The pass run once, its instructions visited in any order.

VisitAny ==
    /\ pc = "run1"
    /\ \E p \in Positions(M) \ visited :
         LET C == VisitInst(Context, M, p)
         IN  /\ Context' = C
             /\ visited' = visited \cup {p}
             /\ emitted' = [q \in visited \cup {p} |->
                              IF q = p THEN Suffix(C.Diags, Context.Diags) ELSE emitted[q]]
    /\ UNCHANGED <<M, pc, mark>>

ReturnAny ==
    /\ pc = "run1"
    /\ Positions(M) \ visited = {}
    /\ pc' = "done"
    /\ UNCHANGED <<M, Context, visited, emitted, mark>>

NextAnyOrder == VisitAny \/ ReturnAny

SpecAnyOrder == Init /\ [][NextAnyOrder]_vars

----------------------------------------------------------------------------
\* The claims.  emitted[p] is what the visit of instruction p handed the
\* engine in the current run.

Range(s) == {s[i] : i \in DOMAIN s}

\* The multiset of a sequence's elements.
BagOf(s) == [d \in Range(s) |-> Cardinality({i \in DOMAIN s : s[i] = d})]

Kind(p) == InstAt(M, p).kind

Loc(p) == InstAt(M, p).loc

Fn(p) == FunctionOf(M, p)

\* Where the source span of a syntax node ends.
SpanEnd(L) == CASE L = "FuncExpr" -> 20 [] L = "ClosureExpr" -> 40 [] L = "SwitchStmt" -> 60

MissingReturn(p) == [kind |-> "missing_return", loc |-> SpanEnd(Loc(p)), arg |-> Fn(p).resTy]

NonExhaustiveSwitch(p) == [kind |-> "non_exhaustive_switch", loc |-> SpanEnd(Loc(p)), arg |-> NoType]

ReturnFromNoReturn(p) == [kind |-> "return_from_noreturn", loc |-> SpanEnd(Loc(p)), arg |-> NoType]

KindsOf(s) == {s[i].kind : i \in DOMAIN s}

\* C1, as claimed: in every function whose result type is not void and whose
\* type is not no-return, an Unreachable whose location is a function body
\* makes the pass emit exactly one MissingReturn, with the function's result
\* type, at the end of the Unreachable's location.
C1_AsClaimed ==
    \A p \in DOMAIN emitted :
        (/\ Kind(p) = "Unreachable" /\ Loc(p) = "FuncExpr"
         /\ ~isVoid(Fn(p).resTy) /\ ~Fn(p).noReturn)
        => emitted[p] = <<MissingReturn(p)>>

\* C1, amended: the same of every such function whose own location is a
\* function expression (FuncExpr); of a function whose location is a closure
\* or null the pass says nothing.
C1_MissingReturn ==
    \A p \in DOMAIN emitted :
        (/\ Kind(p) = "Unreachable" /\ Loc(p) = "FuncExpr"
         /\ Fn(p).loc = "FuncExpr"
         /\ ~isVoid(Fn(p).resTy) /\ ~Fn(p).noReturn)
        => emitted[p] = <<MissingReturn(p)>>

C1_Witness ==
    \E p \in DOMAIN emitted :
        /\ Kind(p) = "Unreachable" /\ Loc(p) = "FuncExpr"
        /\ Fn(p).loc = "FuncExpr" /\ Fn(p).resTy = "Int" /\ ~Fn(p).noReturn
        /\ emitted[p] = <<[kind |-> "missing_return", loc |-> 20, arg |-> "Int"]>>

\* C2, as claimed: in a no-return function, whatever the function's own
\* location, a Return with a non-null location makes the pass emit exactly
\* one ReturnFromNoReturn at the end of the Return's location.
C2_AsClaimed ==
    \A p \in DOMAIN emitted :
        (Kind(p) = "Return" /\ Fn(p).noReturn /\ ~isNull(Loc(p)))
        => emitted[p] = <<ReturnFromNoReturn(p)>>

\* C2, amended: the same of every no-return function whose own location is a
\* function expression (FuncExpr).
C2_ReturnFromNoReturn ==
    \A p \in DOMAIN emitted :
        (Kind(p) = "Return" /\ Fn(p).noReturn /\ ~isNull(Loc(p)) /\ Fn(p).loc = "FuncExpr")
        => emitted[p] = <<ReturnFromNoReturn(p)>>

C2_Witness ==
    \E p \in DOMAIN emitted :
        /\ Kind(p) = "Return" /\ Fn(p).noReturn /\ Loc(p) = "ClosureExpr"
        /\ Fn(p).loc = "FuncExpr"
        /\ emitted[p] = <<[kind |-> "return_from_noreturn", loc |-> 40, arg |-> NoType]>>

\* C3: no MissingReturn is emitted for an instruction of a function whose
\* result type is void or whose type is no-return, however its Unreachable
\* terminators are attributed; so it is when the run is complete.
C3_NoMissingReturnForVoidOrNoReturn ==
    \A p \in DOMAIN emitted :
        (isVoid(Fn(p).resTy) \/ Fn(p).noReturn)
        => "missing_return" \notin KindsOf(emitted[p])

C3_Witness ==
    /\ pc = "done"
    /\ \E p \in DOMAIN emitted :
         /\ Kind(p) = "Unreachable" /\ Loc(p) = "FuncExpr" /\ Fn(p).loc = "FuncExpr"
         /\ ~isVoid(Fn(p).resTy) /\ Fn(p).noReturn
         /\ emitted[p] = <<>>
    /\ \E p \in DOMAIN emitted :
         /\ Kind(p) = "Unreachable" /\ Loc(p) = "FuncExpr" /\ Fn(p).loc = "FuncExpr"
         /\ isVoid(Fn(p).resTy) /\ ~Fn(p).noReturn
         /\ emitted[p] = <<>>

\* C4: an Unreachable whose location is a switch statement makes the pass
\* emit exactly one NonExhaustiveSwitch at the end of that location and
\* nothing else, whatever the function's result type and no-return flag.
C4_NonExhaustiveSwitch ==
    \A p \in DOMAIN emitted :
        (Kind(p) = "Unreachable" /\ Loc(p) = "SwitchStmt")
        => emitted[p] = <<NonExhaustiveSwitch(p)>>

C4_Witness ==
    \E p \in DOMAIN emitted :
        /\ Kind(p) = "Unreachable" /\ Loc(p) = "SwitchStmt"
        /\ Fn(p).loc = "FuncExpr" /\ ~isVoid(Fn(p).resTy) /\ ~Fn(p).noReturn
        /\ emitted[p] = <<[kind |-> "non_exhaustive_switch", loc |-> 60, arg |-> NoType]>>

\* C5: an Unreachable or a Return with a null location causes no diagnostic,
\* in any function.
C5_NullLocationSilent ==
    \A p \in DOMAIN emitted :
        (Kind(p) \in {"Unreachable", "Return"} /\ isNull(Loc(p))) => emitted[p] = <<>>

C5_Witness ==
    /\ \E p \in DOMAIN emitted :
         /\ Kind(p) = "Return" /\ isNull(Loc(p))
         /\ Fn(p).loc = "FuncExpr" /\ Fn(p).noReturn
    /\ \E p \in DOMAIN emitted :
         /\ Kind(p) = "Unreachable" /\ isNull(Loc(p))
         /\ Fn(p).loc = "FuncExpr" /\ ~isVoid(Fn(p).resTy) /\ ~Fn(p).noReturn

\* C6: an Unreachable whose location is non-null and neither a function body
\* nor a switch statement causes no diagnostic: a diagnostic is emitted for an
\* Unreachable only if its location is a FuncExpr or a SwitchStmt.
C6_UnknownLocationSilent ==
    \A p \in DOMAIN emitted :
        /\ (Kind(p) = "Unreachable" /\ ~isNull(Loc(p))
            /\ Loc(p) \notin {"FuncExpr", "SwitchStmt"}) => emitted[p] = <<>>
        /\ (Kind(p) = "Unreachable" /\ emitted[p] # <<>>)
           => Loc(p) \in {"FuncExpr", "SwitchStmt"}

C6_Witness ==
    \E p \in DOMAIN emitted :
        /\ Kind(p) = "Unreachable" /\ Loc(p) = "ClosureExpr"
        /\ Fn(p).loc = "FuncExpr" /\ ~isVoid(Fn(p).resTy) /\ ~Fn(p).noReturn
        /\ emitted[p] = <<>>

\* C7: the multiset of the diagnostics of a complete run is the same in
\* whatever order the instructions of the module are visited: it is that of
\* the run in the order of the pass's loops.
C7_OrderIndependent ==
    pc = "done" =>
        BagOf(Context.Diags) =
        BagOf(emitSILDataflowDiagnostics([Diags |-> <<>>, failed |-> FALSE], M).Diags)

C7_Witness ==
    /\ pc = "done"
    /\ Len(Context.Diags) = 2
    /\ Context.Diags # emitSILDataflowDiagnostics([Diags |-> <<>>, failed |-> FALSE], M).Diags

\* C8: the second of two runs over a module forwards the same multiset of
\* diagnostics as the first, and the first run does not affect it: it
\* forwards what a run that starts with no diagnostics forwards.
C8_SecondRunSame ==
    pc = "done" =>
        /\ BagOf(SubSeq(Context.Diags, 1, mark)) =
           BagOf(SubSeq(Context.Diags, mark + 1, Len(Context.Diags)))
        /\ SubSeq(Context.Diags, mark + 1, Len(Context.Diags)) =
           emitSILDataflowDiagnostics([Diags |-> <<>>, failed |-> FALSE], M).Diags

C8_Witness ==
    /\ pc = "done"
    /\ mark = 2
    /\ Len(Context.Diags) = 4

\* C9: where diagnoseMissingReturn emits, its assertion holds: the
\* Unreachable's location is not null and the result type is a type and not
\* void.
C9_AssertionHolds ==
    /\ ~Context.failed
    /\ \A p \in DOMAIN emitted :
         \A i \in DOMAIN emitted[p] :
            emitted[p][i].kind = "missing_return"
            => /\ ~isNull(Loc(p))
               /\ emitted[p][i].arg \in Types
               /\ ~isVoid(emitted[p][i].arg)

C9_Witness ==
    \E p \in DOMAIN emitted : "missing_return" \in KindsOf(emitted[p])

\* C10: a ReturnFromNoReturn is emitted only for a Return of a no-return
\* function: a Return of a function that is not no-return causes no
\* diagnostic, whatever the Return's location.
C10_OnlyInNoReturn ==
    \A p \in DOMAIN emitted :
        /\ (Kind(p) = "Return" /\ ~Fn(p).noReturn) => emitted[p] = <<>>
        /\ "return_from_noreturn" \in KindsOf(emitted[p])
           => (Kind(p) = "Return" /\ Fn(p).noReturn)

C10_Witness ==
    /\ \E p \in DOMAIN emitted :
         /\ Kind(p) = "Return" /\ ~Fn(p).noReturn /\ Fn(p).loc = "FuncExpr"
         /\ Loc(p) = "FuncExpr" /\ emitted[p] = <<>>
    /\ \E p \in DOMAIN emitted : "return_from_noreturn" \in KindsOf(emitted[p])

====
